---------------------------- MODULE Spec2Model ----------------------------
(***************************************************************************)
(* A model of drep_modules/d_cluster.py: the two-tier genome clustering    *)
(* (MASH coarse clustering, then pairwise ANIn inside every MASH cluster), *)
(* the graph builders, the connected-component clusterer, the NUCmer delta *)
(* parser and the process pool that runs the NUCmer commands.              *)
(*                                                                         *)
(* Conventions.                                                            *)
(*  - A file location is the sequence of the '.'-separated parts of its    *)
(*    base name (<<"D","v2","fna">> is D.v2.fna); a genome name is such a  *)
(*    sequence too (<<"D","v2">> is "D.v2"), so the two name derivations   *)
(*    of the code can be told apart.                                       *)
(*  - Fractions are percentages: a similarity of .95 is 95, a threshold of *)
(*    .99 is 99.  An identity (ani) is kept as the exact fraction          *)
(*    [num, den] the float division computes, and compared by cross        *)
(*    multiplication.                                                      *)
(*  - A pandas DataFrame is the sequence of its rows, a row a record.      *)
(*  - A networkx Graph is [nodes |-> sequence in insertion order,          *)
(*    edges |-> set of {u, v}] (a self loop is {u}).                       *)
(***************************************************************************)
EXTENDS Integers, Sequences, FiniteSets, TLC

VARIABLES
    \* ---- cluster_genomes (Spec) ----
    pc,        \* position in cluster_genomes
    Bdb,       \* the input table: rows [genome, location]
    MASH_ANI,  \* parameter MASH_ANI
    ANIn,      \* parameter ANIn
    dry,       \* parameter dry
    skipMash,  \* parameter skipMash
    skipANIn,  \* parameter skipANIn
    Mdb,       \* local Mdb (<<>> while unbound)
    Cdb,       \* local Cdb
    Ndb,       \* local Ndb
    bound,     \* the locals among Mdb, Cdb, Ndb that are assigned
    cmds,      \* run_anin_on_clusters: the local cmds
    nuc,       \* what NUCmer wrote for each command run: <<ref, querry>> -> content
    fineG,     \* cluster_anin_database: the local g of every MASH cluster
    \* ---- make_graph / make_graph_anin / cluster_graph (GraphSpec) ----
    gkind,     \* "mash" (make_graph) or "anin" (make_graph_anin)
    gdf,       \* the table handed to the graph builder
    gres,      \* threshold -> [G, clusters], for the thresholds applied so far
    \* ---- process_deltadir (ParseSpec) ----
    ddir,      \* the .delta files of delta_dir, in the order glob lists them
    dout,      \* process_deltadir: [state, df], df holding the rows of Table
    \* ---- thread_nucmer_cmds inside run_anin_on_clusters (PoolSpec) ----
    rpc,       \* position of the parent process in run_anin_on_clusters
    t,         \* thread_nucmer_cmds: the parameter t, the size of the pool
    job,       \* command -> "new" | "queued" | "running" | "done"
    delta,     \* command -> its .delta file: "none" | "partial" | "complete"
    readlog    \* what process_deltadir read: [cmd, job, file] per file read

pipev  == <<pc, Bdb, MASH_ANI, ANIn, dry, skipMash, skipANIn, Mdb, Cdb, Ndb,
           bound, cmds, nuc, fineG>>
graphv == <<gkind, gdf, gres>>
parsev == <<ddir, dout>>
poolv  == <<rpc, t, job, delta, readlog>>
vars   == <<pipev, graphv, parsev, poolv>>

-----------------------------------------------------------------------------
(* Generic helpers for tables (sequences of rows).                         *)

Range(s) == {s[i] : i \in 1..Len(s)}

RECURSIVE UniqueFrom(_, _, _)
\* Series.unique(): the values in order of first appearance
UniqueFrom(s, i, acc) ==
    IF i > Len(s) THEN acc
    ELSE CHOOSE r \in {UniqueFrom(s, i + 1, a) :
                         a \in {IF s[i] \in Range(acc) THEN acc ELSE Append(acc, s[i])}} : TRUE

Unique(s) == UniqueFrom(s, 1, <<>>)

RECURSIVE MkSeq(_, _, _)
\* the sequence <<f[i], ..., f[n]>>
MkSeq(f, i, n) == IF i > n THEN <<>> ELSE <<f[i]>> \o MkSeq(f, i + 1, n)

RECURSIVE Flatten(_, _)
\* the concatenation of a sequence of sequences
Flatten(ss, i) == IF i > Len(ss) THEN <<>> ELSE ss[i] \o Flatten(ss, i + 1)

-----------------------------------------------------------------------------
(* Names.                                                                  *)

\* load_genomes: '.'.join(os.path.basename(genome).split('.')[:-1])
LoadName(loc) == SubSeq(loc, 1, Len(loc) - 1)

load_genomes(genome_list) ==
    MkSeq([i \in 1..Len(genome_list) |->
             [genome |-> LoadName(genome_list[i]), location |-> genome_list[i]]],
          1, Len(genome_list))

\* get_genome_name_from_fasta: str(os.path.basename(fasta).split('.')[0])
get_genome_name_from_fasta(fasta) == <<fasta[1]>>

-----------------------------------------------------------------------------
(* Graphs and connected components.                                        *)

EmptyGraph == [nodes |-> <<>>, edges |-> {}]

\* G.add_node(n)
add_node(G, n) ==
    IF n \in Range(G.nodes) THEN G ELSE [G EXCEPT !.nodes = Append(@, n)]

\* G.add_edge(u, v): both ends become nodes
add_edge(G, u, v) ==
    CHOOSE r \in {[add_node(g, v) EXCEPT !.edges = @ \cup {{u, v}}] :
                    g \in {add_node(G, u)}} : TRUE

RECURSIVE AddNodes(_, _, _)
AddNodes(G, ns, i) ==
    IF i > Len(ns) THEN G
    ELSE CHOOSE r \in {AddNodes(g, ns, i + 1) : g \in {add_node(G, ns[i])}} : TRUE

RECURSIVE Reach(_, _)
\* the nodes connected to a node of seen
Reach(G, seen) ==
    CHOOSE r \in {IF more \subseteq seen THEN seen ELSE Reach(G, seen \cup more) :
                    more \in {{n \in Range(G.nodes) : \E m \in seen : {n, m} \in G.edges}}} :
        TRUE

RECURSIVE Components(_, _, _, _)
\* nx.connected_components: one set of nodes per component, in the order of the
\* first node of each in G's node order
Components(G, i, seen, acc) ==
    IF i > Len(G.nodes) THEN acc
    ELSE IF G.nodes[i] \in seen THEN Components(G, i + 1, seen, acc)
    ELSE CHOOSE r \in {Components(G, i + 1, sa[1], sa[2]) :
                         sa \in {<<seen \cup c, Append(acc, c)>> :
                                    c \in {Reach(G, {G.nodes[i]})}}} : TRUE

\* The rows of cluster_graph for the components comps of the nodes: a row
\* [cluster, genome] per node; the cluster counter starts at 0 and grows by one
\* per component.  (The rows of one component are listed in G's node order.)
cluster_rows(nodes, comps) ==
    LET rows(k) == LET members == SelectSeq(nodes, LAMBDA n : n \in comps[k])
                   IN  MkSeq([j \in 1..Len(members) |->
                                [cluster |-> k - 1, genome |-> members[j]]],
                             1, Len(members))
    IN  Flatten(MkSeq([k \in 1..Len(comps) |-> rows(k)], 1, Len(comps)), 1)

\* cluster_graph
cluster_graph(G) ==
    CHOOSE df \in {cluster_rows(g.nodes, c) :
                     g \in {G}, c \in {Components(g, 1, {}, <<>>) : g \in {G}}} : TRUE

-----------------------------------------------------------------------------
(* Fractions and thresholds.                                               *)

\* x > pct/100 for the fraction x = num/den (den > 0)
FracGT(x, pct) == 100 * x.num > pct * x.den

\* the default MASH_ANI=.90 of cluster_genomes
DefaultMASH_ANI == 90
\* the default ANIn=.99 of cluster_genomes and the ANIn=.99 written in its call
\* of cluster_anin_database
DefaultANIn == 99
\* the cov_thresh=0.5 written in the call of cluster_anin_database
DefaultCov == 50

-----------------------------------------------------------------------------
(* The graph builders.                                                     *)

Column(df, col) == MkSeq([i \in 1..Len(df) |-> df[i][col]], 1, Len(df))

RECURSIVE make_graph_rows(_, _, _, _)
\* the loop of make_graph over the rows of df
make_graph_rows(G, df, i, threshold) ==
    IF i > Len(df) THEN G
    ELSE CHOOSE r \in {make_graph_rows(g, df, i + 1, threshold) :
                         g \in {IF df[i].similarity > threshold
                                 THEN add_edge(G, df[i].genome1, df[i].genome2)
                                 ELSE G}} : TRUE

\* make_graph
make_graph(df, threshold) ==
    make_graph_rows(AddNodes(EmptyGraph, Unique(Column(df, "genome1")), 1),
                    df, 1, threshold)

RECURSIVE make_graph_anin_rows_lt(_, _, _, _, _)
\* make_graph_anin's loop with the identity test reversed: ani < anin_thresh
make_graph_anin_rows_lt(G, df, i, cov_thresh, anin_thresh) ==
    IF i > Len(df) THEN G
    ELSE CHOOSE r \in {make_graph_anin_rows_lt(g, df, i + 1, cov_thresh, anin_thresh) :
                         g \in {IF /\ FracGT(df[i].ref_coverage, cov_thresh)
                                    /\ 100 * df[i].ani.num < anin_thresh * df[i].ani.den
                                 THEN add_edge(G, df[i].reference, df[i].querry)
                                 ELSE G}} : TRUE

RECURSIVE make_graph_anin_rows(_, _, _, _, _)
\* the loop of make_graph_anin over the rows of df
make_graph_anin_rows(G, df, i, cov_thresh, anin_thresh) ==
    IF i > Len(df) THEN G
    ELSE CHOOSE r \in {make_graph_anin_rows(g, df, i + 1, cov_thresh, anin_thresh) :
                         g \in {IF /\ FracGT(df[i].ref_coverage, cov_thresh)
                                    /\ FracGT(df[i].ani, anin_thresh)
                                 THEN add_edge(G, df[i].reference, df[i].querry)
                                 ELSE G}} : TRUE

\* make_graph_anin
make_graph_anin(df, cov_thresh, anin_thresh) ==
    make_graph_anin_rows(AddNodes(EmptyGraph, Unique(Column(df, "reference")), 1),
                         df, 1, cov_thresh, anin_thresh)

\* cluster_database
cluster_database(db, threshold) ==
    LET T == cluster_graph(make_graph(db, threshold))
    IN  MkSeq([i \in 1..Len(T) |->
                 [genome |-> T[i].genome, MASH_cluster |-> T[i].cluster]], 1, Len(T))

-----------------------------------------------------------------------------
(* The NUCmer delta parser.                                                *)
(* A line of a delta file is [hdr, cols]: hdr says that its first field is *)
(* 'NUCMER' or starts with '>', cols holds its whitespace-separated fields *)
(* (the integer a field reads as; 0 for a field that is not a number).     *)

Abs(x) == IF x < 0 THEN -x ELSE x

RECURSIVE parse_delta_lines(_, _, _, _)
parse_delta_lines(lines, i, aln_length, sim_errors) ==
    IF i > Len(lines) THEN <<aln_length, sim_errors>>
    ELSE IF lines[i].hdr THEN parse_delta_lines(lines, i + 1, aln_length, sim_errors)
    ELSE IF Len(lines[i].cols) = 7
         THEN parse_delta_lines(lines, i + 1,
                                aln_length + Abs(lines[i].cols[2] - lines[i].cols[1]),
                                sim_errors + lines[i].cols[5])
    ELSE parse_delta_lines(lines, i + 1, aln_length, sim_errors)

\* parse_delta: <<alignment length, similarity errors>> of a file's lines
parse_delta(lines) == parse_delta_lines(lines, 1, 0, 0)

\* The row process_deltadir appends for one delta file.  The file is
\* [name |-> <<qname, sname>>, lines |-> its lines]: the code splits the file's
\* base name, less its extension, at '_vs_'.
delta_row(f, org_lengths) ==
    LET qname == f.name[1]
        sname == f.name[2]
        tot   == parse_delta(f.lines)
        tot_length    == tot[1]
        tot_sim_error == tot[2]
    IN  [querry            |-> qname,
         reference         |-> sname,
         alignment_length  |-> tot_length,
         similarity_errors |-> tot_sim_error,
         \* perc_id = 1 - float(tot_sim_error) / tot_length, 0 on ZeroDivisionError
         ani               |-> IF tot_length = 0 THEN [num |-> 0, den |-> 1]
                               ELSE [num |-> tot_length - tot_sim_error,
                                     den |-> tot_length],
         ref_coverage      |-> [num |-> tot_length, den |-> org_lengths[sname]],
         querry_coverage   |-> [num |-> tot_length, den |-> org_lengths[qname]]]

\* process_deltadir without its try/except: a total length of 0 raises too
delta_raises_notry(f, org_lengths) ==
    \/ \E i \in 1..Len(f.lines) : Len(f.lines[i].cols) = 0
    \/ f.name[1] \notin DOMAIN org_lengths
    \/ f.name[2] \notin DOMAIN org_lengths
    \/ org_lengths[f.name[1]] = 0
    \/ org_lengths[f.name[2]] = 0
    \/ parse_delta(f.lines)[1] = 0

\* what makes process_deltadir raise on a file: line[0] of a blank line
\* (IndexError), org_lengths[name] of a name that is no key (KeyError), or a
\* division by a genome length of 0 (the two coverage divisions are outside the
\* try)
delta_raises(f, org_lengths) ==
    \/ \E i \in 1..Len(f.lines) : Len(f.lines[i].cols) = 0
    \/ f.name[1] \notin DOMAIN org_lengths
    \/ f.name[2] \notin DOMAIN org_lengths
    \/ org_lengths[f.name[1]] = 0
    \/ org_lengths[f.name[2]] = 0

\* process_deltadir on the files glob returned, in glob's order:
\* [raised, df]
process_deltadir(deltafiles, org_lengths) ==
    IF \E i \in 1..Len(deltafiles) : delta_raises(deltafiles[i], org_lengths)
    THEN [raised |-> TRUE, df |-> <<>>]
    ELSE [raised |-> FALSE,
          df |-> MkSeq([i \in 1..Len(deltafiles) |->
                          delta_row(deltafiles[i], org_lengths)], 1, Len(deltafiles))]

-----------------------------------------------------------------------------
(* The NUCmer commands.                                                    *)

\* gen_nucmer_cmd: the command line, kept as the record of its parts
gen_nucmer_cmd(prefix, ref, querry, c, noextend, maxgap, method) ==
    [prog |-> "nucmer", method |-> method, p |-> prefix, c |-> c, g |-> maxgap,
     noextend |-> noextend, ref |-> ref, querry |-> querry]

\* gen_nucmer_commands: g1 and g2 both range over the whole list.  The prefix
\* "{outf}{name1}_vs_{name2}" is kept as <<outf, name1, name2>>.
gen_nucmer_commands(genomes, outf, c, maxgap, noextend, method) ==
    LET n == Len(genomes)
        inner(i) ==
            MkSeq([j \in 1..n |->
                     gen_nucmer_cmd(<<outf, get_genome_name_from_fasta(genomes[i]),
                                      get_genome_name_from_fasta(genomes[j])>>,
                                    genomes[i], genomes[j], c, noextend, maxgap, method)],
                  1, n)
    IN  Flatten(MkSeq([i \in 1..n |-> inner(i)], 1, n), 1)

-----------------------------------------------------------------------------
(* all_vs_all_MASH.                                                        *)

\* The table all_vs_all_MASH reads from MASH_table.tsv.  mash dist names a
\* sketch by the fasta file it was made from and writes a row for every ordered
\* pair of sketches; dist is what mash measured, <<reference, query>> -> distance
\* (a percentage).  The names are then mapped through get_genome_name_from_fasta
\* and similarity = 1 - dist.
all_vs_all_MASH(B, dist) ==
    LET locs == Unique(Column(B, "location"))
        n    == Len(locs)
        rows(q) ==
            MkSeq([r \in 1..n |->
                     [genome1    |-> get_genome_name_from_fasta(locs[r]),
                      genome2    |-> get_genome_name_from_fasta(locs[q]),
                      dist       |-> dist[<<locs[r], locs[q]>>],
                      similarity |-> 100 - dist[<<locs[r], locs[q]>>]]],
                  1, n)
    IN  Flatten(MkSeq([q \in 1..n |-> rows(q)], 1, n), 1)

-----------------------------------------------------------------------------
(* run_anin_on_clusters.                                                   *)

\* pd.merge(Bdb, Cdb): the inner join on the one common column, genome, in the
\* order of Bdb's rows
merge_Bdb_Cdb(B, C) ==
    LET match(i) ==
            LET hits == SelectSeq(C, LAMBDA row : row.genome = B[i].genome)
            IN  MkSeq([j \in 1..Len(hits) |->
                         [genome |-> B[i].genome, location |-> B[i].location,
                          MASH_cluster |-> hits[j].MASH_cluster]], 1, Len(hits))
    IN  Flatten(MkSeq([i \in 1..Len(B) |-> match(i)], 1, Len(B)), 1)

\* Step 1 of run_anin_on_clusters: the commands, cluster after cluster
anin_commands(B2) ==
    LET clusters == Unique(Column(B2, "MASH_cluster"))
        of(k) == gen_nucmer_commands(
                     Column(SelectSeq(B2, LAMBDA row : row.MASH_cluster = clusters[k]),
                            "location"),
                     clusters[k], 65, 1, TRUE, "mum")
    IN  Flatten(MkSeq([k \in 1..Len(clusters) |-> of(k)], 1, Len(clusters)), 1)

\* The delta files on disk once the commands have run: NUCmer writes
\* <prefix>.delta; out[<<ref, querry>>] is what it writes for that pair.
delta_files(cs, out) ==
    {[folder |-> c.p[1], name |-> <<c.p[2], c.p[3]>>, lines |-> out[<<c.ref, c.querry>>]] :
        c \in Range(cs)}

\* glob.glob(delta_dir + '*.delta'): the files of one folder, in the order the
\* file system lists them.  order (the genome names in some order) stands for
\* that order: files are listed by their second name, then by their first.
glob(files, folder, order) ==
    LET n == Len(order)
        at(i, j) == {f \in files : f.folder = folder /\ f.name = <<order[j], order[i]>>}
        one(i, j) == IF at(i, j) = {} THEN <<>>
                     ELSE LET f == CHOOSE g \in at(i, j) : TRUE
                          IN  <<[name |-> f.name, lines |-> f.lines]>>
        row(i) == Flatten(MkSeq([j \in 1..n |-> one(i, j)], 1, n), 1)
    IN  Flatten(MkSeq([i \in 1..n |-> row(i)], 1, n), 1)

\* Step 3 of run_anin_on_clusters: [raised, cols, rows] of Ndb.  Ndb starts as
\* pd.DataFrame(), which has no column until a cluster's table is appended.
anin_parse(B2, files, lengths, order) ==
    LET clusters    == Unique(Column(B2, "MASH_cluster"))
        org_lengths == [y \in Range(Column(B2, "genome")) |->
                          lengths[(CHOOSE i \in 1..Len(B2) : B2[i].genome = y)]]
        data == MkSeq([k \in 1..Len(clusters) |->
                         process_deltadir(glob(files, clusters[k], order), org_lengths)],
                      1, Len(clusters))
        tagged(k) == MkSeq([i \in 1..Len(data[k].df) |->
                              data[k].df[i] @@ [MASH_cluster |-> clusters[k]]],
                           1, Len(data[k].df))
    IN  IF \E k \in 1..Len(clusters) : data[k].raised
        THEN [raised |-> TRUE, cols |-> FALSE, rows |-> <<>>]
        ELSE [raised |-> FALSE,
              cols   |-> Len(clusters) > 0,
              rows   |-> Flatten(MkSeq([k \in 1..Len(clusters) |-> tagged(k)],
                                       1, Len(clusters)), 1)]

-----------------------------------------------------------------------------
(* cluster_anin_database.                                                  *)

DigitChar == <<"0", "1", "2", "3", "4", "5", "6", "7", "8", "9">>

RECURSIVE Digits(_)
\* str(n) for n >= 0, as the sequence of its characters
Digits(n) ==
    IF n < 10 THEN <<DigitChar[n + 1]>>
    ELSE Digits(n \div 10) \o <<DigitChar[(n % 10) + 1]>>

\* a label that leaves the MASH cluster out
format_label_fine(cluster, clust) == Digits(clust)

\* "{0}_{1}".format(cluster, clust)
format_label(cluster, clust) == Digits(cluster) \o <<"_">> \o Digits(clust)

\* the graph g cluster_anin_database builds for one MASH cluster
anin_graph(C, N, cluster, ANIn_, cov_thresh) ==
    LET members == {C[i].genome : i \in {j \in 1..Len(C) : C[j].MASH_cluster = cluster}}
        d       == SelectSeq(N, LAMBDA row : row.reference \in members)
    IN  make_graph_anin(d, cov_thresh, ANIn_)

\* the rows cluster_anin_database appends to Table for one MASH cluster
anin_table(C, N, cluster, ANIn_, cov_thresh) ==
    LET df     == cluster_graph(anin_graph(C, N, cluster, ANIn_, cov_thresh))
        clusts == Unique(Column(df, "cluster"))
        of(k)  == LET d == SelectSeq(df, LAMBDA row : row.cluster = clusts[k])
                  IN  MkSeq([i \in 1..Len(d) |->
                               [genome       |-> d[i].genome,
                                ANIn_cluster |-> format_label(cluster, clusts[k])]],
                            1, Len(d))
    IN  Flatten(MkSeq([k \in 1..Len(clusts) |-> of(k)], 1, Len(clusts)), 1)

\* pd.merge(Gdb, Cdb): the inner join on genome, in the order of Gdb's rows
merge_Gdb_Cdb(Gdb, C) ==
    LET match(i) ==
            LET hits == SelectSeq(C, LAMBDA row : row.genome = Gdb[i].genome)
            IN  MkSeq([j \in 1..Len(hits) |->
                         [genome |-> Gdb[i].genome,
                          ANIn_cluster |-> Gdb[i].ANIn_cluster,
                          MASH_cluster |-> hits[j].MASH_cluster]], 1, Len(hits))
    IN  Flatten(MkSeq([i \in 1..Len(Gdb) |-> match(i)], 1, Len(Gdb)), 1)

\* cluster_anin_database
cluster_anin_database(C, N, ANIn_, cov_thresh) ==
    LET clusters == Unique(Column(C, "MASH_cluster"))
        Gdb == Flatten(MkSeq([k \in 1..Len(clusters) |->
                                anin_table(C, N, clusters[k], ANIn_, cov_thresh)],
                             1, Len(clusters)), 1)
    IN  merge_Gdb_Cdb(Gdb, C)

-----------------------------------------------------------------------------
(* Inputs of the model.                                                    *)

\* the most genome files handed to load_genomes
MaxGenomes == 3

\* The genome files, in the order glob lists them.  D.v2.fna has a dot inside
\* its base name.
Files == << <<"A", "fna">>, <<"B", "fa">>, <<"C", "fasta">>, <<"D", "v2", "fna">> >>

\* dm.fasta_length of each file
fasta_length ==
    (<<"A", "fna">> :> 200) @@ (<<"B", "fa">> :> 200) @@
    (<<"C", "fasta">> :> 400) @@ (<<"D", "v2", "fna">> :> 200)

\* the lists of genome files: the non-empty sublists of Files
GenomeLists ==
    {SelectSeq(Files, LAMBDA f : f \in S) :
        S \in {X \in SUBSET Range(Files) : Cardinality(X) \in 1..MaxGenomes}}

\* the values of MASH_ANI and of ANIn a caller passes
MashThresholds == {DefaultMASH_ANI, 97}
AninThresholds == {95, DefaultANIn}

\* the distances mash reports for two different genomes (percentages)
MashDists == {5, 60}

\* What mash measures: the distance of a genome to itself is 0, and the
\* distance of two genomes does not depend on their order.
MashOutcomes(locs) ==
    LET pairs == {S \in SUBSET locs : Cardinality(S) = 2}
    IN  {[p \in locs \X locs |-> IF p[1] = p[2] THEN 0 ELSE f[{p[1], p[2]}]] :
            f \in [pairs -> MashDists]}

\* the head of every delta file: the two paths, then the NUCMER line
DeltaHead == <<[hdr |-> FALSE, cols |-> <<0, 0>>], [hdr |-> TRUE, cols |-> <<0>>]>>

\* a delta file with one aligned region [1, 1 + len] holding err errors
DeltaOf(len, err) ==
    DeltaHead \o <<[hdr |-> TRUE, cols |-> <<0, 0, 400, 400>>],
                   [hdr |-> FALSE, cols |-> <<1, 1 + len, 1, 1 + len, err, err, 0>>],
                   [hdr |-> FALSE, cols |-> <<0>>]>>

\* What NUCmer finds between two different genomes: 200 aligned bases with 1
\* error (identity .995) or with 6 (identity .97); 80 bases without error.
NucmerKinds == {DeltaOf(200, 1), DeltaOf(200, 6), DeltaOf(80, 0)}

\* What NUCmer writes for the commands cs.  A genome aligned to itself aligns
\* over its whole length without error, and two genomes align over the same
\* regions whichever of them is the reference (the two coverages still differ
\* when the genomes' lengths do).
NucmerOutcomes(cs) ==
    LET pairs == {<<c.ref, c.querry>> : c \in Range(cs)}
        other == {{p[1], p[2]} : p \in {q \in pairs : q[1] # q[2]}}
    IN  {[p \in pairs |-> IF p[1] = p[2] THEN DeltaOf(fasta_length[p[1]], 0)
                          ELSE f[{p[1], p[2]}]] :
            f \in [other -> NucmerKinds]}

\* the sequences that list every element of S once
Perms(S) ==
    {p \in [1..Cardinality(S) -> S] : \A i, j \in 1..Cardinality(S) : i # j => p[i] # p[j]}

-----------------------------------------------------------------------------
(* cluster_genomes, step by step.                                          *)

PoolIdle ==
    /\ rpc = "off" /\ t = 0 /\ job = <<>> /\ delta = <<>> /\ readlog = {}
GraphIdle == gkind = "off" /\ gdf = <<>> /\ gres = <<>>
ParseIdle == ddir = <<>> /\ dout = [state |-> "off", df |-> <<>>]

NoTable == [raised |-> FALSE, cols |-> FALSE, rows |-> <<>>]

PipeIdle ==
    /\ pc = "off" /\ Bdb = <<>> /\ MASH_ANI = DefaultMASH_ANI /\ ANIn = DefaultANIn
    /\ dry = FALSE /\ skipMash = FALSE /\ skipANIn = FALSE
    /\ Mdb = <<>> /\ Cdb = <<>> /\ Ndb = NoTable
    /\ bound = {} /\ cmds = <<>> /\ nuc = <<>> /\ fineG = <<>>

\* a call cluster_genomes(Bdb, data_folder, MASH_ANI, ANIn, dry, skipMash, skipANIn)
\* on a fresh data_folder, Bdb being what load_genomes made of a list of files
Init ==
    /\ pc = "step2"
    /\ Bdb \in {load_genomes(l) : l \in GenomeLists}
    /\ MASH_ANI \in MashThresholds
    /\ ANIn \in AninThresholds
    /\ dry \in BOOLEAN
    /\ skipMash \in BOOLEAN
    /\ skipANIn \in BOOLEAN
    /\ Mdb = <<>> /\ Cdb = <<>> /\ Ndb = NoTable
    /\ bound = {}
    /\ cmds = <<>> /\ nuc = <<>> /\ fineG = <<>>
    /\ GraphIdle /\ ParseIdle /\ PoolIdle

\* Step 2, not skipMash, dry: no mash command is run, and pd.read_csv raises on
\* the MASH_table.tsv that was never written
Step2_dry ==
    /\ pc = "step2" /\ ~skipMash /\ dry
    /\ pc' = "raised"
    /\ UNCHANGED <<Bdb, MASH_ANI, ANIn, dry, skipMash, skipANIn, Mdb, Cdb, Ndb,
                   bound, cmds, nuc, fineG>>
    /\ UNCHANGED <<graphv, parsev, poolv>>

\* Step 2, not skipMash: Mdb = all_vs_all_MASH(...); Cdb = cluster_database(Mdb, MASH_ANI)
Step2_mash ==
    /\ pc = "step2" /\ ~skipMash /\ ~dry
    /\ \E dist \in MashOutcomes(Range(Column(Bdb, "location"))) :
          /\ Mdb' = all_vs_all_MASH(Bdb, dist)
          /\ Cdb' = cluster_database(Mdb', MASH_ANI)
    /\ bound' = {"Mdb", "Cdb"}
    /\ pc' = "step3"
    /\ UNCHANGED <<Bdb, MASH_ANI, ANIn, dry, skipMash, skipANIn, Ndb, cmds, nuc, fineG>>
    /\ UNCHANGED <<graphv, parsev, poolv>>

\* Step 2, skipMash: Cdb = gen_nomash_cdb(Bdb), a name the module does not
\* define: NameError
Step2_skip ==
    /\ pc = "step2" /\ skipMash
    /\ pc' = "raised"
    /\ UNCHANGED <<Bdb, MASH_ANI, ANIn, dry, skipMash, skipANIn, Mdb, Cdb, Ndb,
                   bound, cmds, nuc, fineG>>
    /\ UNCHANGED <<graphv, parsev, poolv>>

\* Step 3a: Ndb = run_anin_on_clusters(Bdb, Cdb, data_folder, dry=dry)
Step3a ==
    /\ pc = "step3" /\ ~skipANIn
    /\ \E B2 \in {merge_Bdb_Cdb(Bdb, Cdb)} :
       \E cs \in {anin_commands(B2)} :
       \E lengths \in {Column(MkSeq([i \in 1..Len(B2) |->
                                        [len |-> fasta_length[B2[i].location]]],
                                    1, Len(B2)), "len")} :
       \E out \in NucmerOutcomes(cs), order \in Perms(Range(Column(B2, "genome"))) :
           \E N \in {anin_parse(B2, delta_files(cs, out), lengths, order)} :
                  /\ cmds' = cs
                  /\ nuc' = out
                  /\ Ndb' = N
                  /\ IF N.raised
                     THEN pc' = "raised" /\ bound' = bound
                     ELSE pc' = "step3b" /\ bound' = bound \cup {"Ndb"}
    /\ UNCHANGED <<Bdb, MASH_ANI, ANIn, dry, skipMash, skipANIn, Mdb, Cdb, fineG>>
    /\ UNCHANGED <<graphv, parsev, poolv>>

\* Step 3b: Cdb = cluster_anin_database(Cdb, Ndb, ANIn=.99, cov_thresh=0.5).
\* Ndb['reference'] raises KeyError on a table without columns.
Step3b ==
    /\ pc = "step3b"
    /\ IF ~Ndb.cols
       THEN pc' = "raised" /\ UNCHANGED <<Cdb, fineG>>
       ELSE /\ Cdb' = cluster_anin_database(Cdb, Ndb.rows, DefaultANIn, DefaultCov)
            /\ fineG' = [cluster \in Range(Column(Cdb, "MASH_cluster")) |->
                            anin_graph(Cdb, Ndb.rows, cluster, DefaultANIn, DefaultCov)]
            /\ pc' = "step4"
    /\ UNCHANGED <<Bdb, MASH_ANI, ANIn, dry, skipMash, skipANIn, Mdb, Ndb, bound, cmds, nuc>>
    /\ UNCHANGED <<graphv, parsev, poolv>>

\* Step 3, skipANIn: nothing is done
Step3_skip ==
    /\ pc = "step3" /\ skipANIn
    /\ pc' = "step4"
    /\ UNCHANGED <<Bdb, MASH_ANI, ANIn, dry, skipMash, skipANIn, Mdb, Cdb, Ndb,
                   bound, cmds, nuc, fineG>>
    /\ UNCHANGED <<graphv, parsev, poolv>>

\* Step 4: return Cdb,Mdb,Ndb, which raises UnboundLocalError on a local that
\* was never assigned
Step4 ==
    /\ pc = "step4"
    /\ pc' = IF {"Cdb", "Mdb", "Ndb"} \subseteq bound THEN "returned" ELSE "raised"
    /\ UNCHANGED <<Bdb, MASH_ANI, ANIn, dry, skipMash, skipANIn, Mdb, Cdb, Ndb,
                   bound, cmds, nuc, fineG>>
    /\ UNCHANGED <<graphv, parsev, poolv>>

Next ==
    \/ Step2_dry
    \/ Step2_mash
    \/ Step2_skip
    \/ Step3a
    \/ Step3b
    \/ Step3_skip
    \/ Step4

Spec == Init /\ [][Next]_vars

-----------------------------------------------------------------------------
(* The graph builders and cluster_graph on tables of any shape: a table    *)
(* may hold a pair once, twice, in one direction only, or not at all.      *)

\* the most rows of a table
MaxRows == 2

GenomeNames == {<<"A">>, <<"B">>, <<"C">>}

\* rows of a table of MASH comparisons
MashRows ==
    [genome1 : GenomeNames, genome2 : GenomeNames, similarity : {40, 95, 99}]

\* rows of a table of ANIn comparisons (the columns make_graph_anin reads)
AninRows ==
    [reference : GenomeNames, querry : GenomeNames,
     cv : {[ani |-> [num |-> 97, den |-> 100],   ref_coverage |-> [num |-> 90, den |-> 100]],
           [ani |-> [num |-> 995, den |-> 1000], ref_coverage |-> [num |-> 90, den |-> 100]],
           [ani |-> [num |-> 995, den |-> 1000], ref_coverage |-> [num |-> 40, den |-> 100]]}]

AninRow(r) == [reference |-> r.reference, querry |-> r.querry,
               ani |-> r.cv.ani, ref_coverage |-> r.cv.ref_coverage]

Tables(rows) == UNION {[1..n -> rows] : n \in 0..MaxRows}

InitGraph ==
    /\ \/ gkind = "mash" /\ gdf \in Tables(MashRows)
       \/ gkind = "anin" /\ gdf \in {MkSeq([i \in 1..Len(tb) |-> AninRow(tb[i])], 1, Len(tb)) :
                                        tb \in Tables(AninRows)}
    /\ gres = <<>>
    /\ PipeIdle /\ ParseIdle /\ PoolIdle

\* the graph of the table gdf at threshold thr, and its clusters
graph_result(kind, df, thr) ==
    LET G == IF kind = "mash" THEN make_graph(df, thr)
             ELSE make_graph_anin(df, DefaultCov, thr)
    IN  [G |-> G, clusters |-> cluster_graph(G)]

\* cluster_database(gdf, thr): make_graph, then cluster_graph
Graph_mash ==
    /\ gkind = "mash"
    /\ \E thr \in MashThresholds \ DOMAIN gres :
          gres' = gres @@ (thr :> graph_result("mash", gdf, thr))
    /\ UNCHANGED <<gkind, gdf>>
    /\ UNCHANGED <<pipev, parsev, poolv>>

\* make_graph_anin(gdf, cov_thresh=0.5, anin_thresh=thr), then cluster_graph
Graph_anin ==
    /\ gkind = "anin"
    /\ \E thr \in AninThresholds \ DOMAIN gres :
          gres' = gres @@ (thr :> graph_result("anin", gdf, thr))
    /\ UNCHANGED <<gkind, gdf>>
    /\ UNCHANGED <<pipev, parsev, poolv>>

NextGraph ==
    \/ Graph_mash
    \/ Graph_anin

GraphSpec == InitGraph /\ [][NextGraph]_vars

-----------------------------------------------------------------------------
(* process_deltadir on a directory of delta files (ParseSpec).             *)

\* the most lines of a delta file
MaxLines == 2

\* The lines NUCmer writes (it writes no blank line): a header ('NUCMER' or
\* '>...'); a match record of 100 bases with 2 errors; a record of length 0
\* that counts 1 error; a record on the reverse strand, 50 bases without
\* error; the one-field line that follows a record.
LineKinds ==
    {[hdr |-> TRUE,  cols |-> <<0, 0, 400, 400>>],
     [hdr |-> FALSE, cols |-> <<1, 101, 1, 101, 2, 2, 0>>],
     [hdr |-> FALSE, cols |-> <<5, 5, 9, 9, 1, 1, 0>>],
     [hdr |-> FALSE, cols |-> <<60, 10, 1, 51, 0, 0, 0>>],
     [hdr |-> FALSE, cols |-> <<0>>]}

\* the contents of a delta file: whole, cut short, or empty
DeltaContents == UNION {[1..n -> LineKinds] : n \in 0..MaxLines}

\* the delta files of the pairs of two genomes A and B
DeltaNames == {<<<<"A">>, <<"B">>>>, <<<<"B">>, <<"A">>>>}

\* the directories: no file, one, or both, in either order
DeltaDirs ==
    {<<>>}
    \cup {<<[name |-> n, lines |-> c]>> : n \in DeltaNames, c \in DeltaContents}
    \cup {<<[name |-> p[1], lines |-> c1], [name |-> p[2], lines |-> c2]>> :
            p \in {q \in DeltaNames \X DeltaNames : q[1] # q[2]},
            c1 \in DeltaContents, c2 \in DeltaContents}

\* org_lengths of the two genomes
ParseLengths == (<<"A">> :> 200) @@ (<<"B">> :> 400)

InitParse ==
    /\ ddir \in DeltaDirs
    /\ dout = [state |-> "glob", df |-> <<>>]
    /\ PipeIdle /\ GraphIdle /\ PoolIdle

\* one turn of the loop over deltafiles: the row of the next file is appended
\* to Table, unless a statement of the turn raises
Parse_file ==
    /\ dout.state = "glob"
    /\ Len(dout.df) < Len(ddir)
    /\ \E f \in {ddir[Len(dout.df) + 1]} :
          dout' = IF delta_raises(f, ParseLengths)
                  THEN [state |-> "raised", df |-> <<>>]
                  ELSE [state |-> "glob", df |-> Append(dout.df, delta_row(f, ParseLengths))]
    /\ UNCHANGED ddir
    /\ UNCHANGED <<pipev, graphv, poolv>>

\* the loop is over: df = pd.DataFrame(Table); return df
Parse_return ==
    /\ dout.state = "glob"
    /\ Len(dout.df) = Len(ddir)
    /\ dout' = [dout EXCEPT !.state = "returned"]
    /\ UNCHANGED ddir
    /\ UNCHANGED <<pipev, graphv, poolv>>

NextParse ==
    \/ Parse_file
    \/ Parse_return

ParseSpec == InitParse /\ [][NextParse]_vars

-----------------------------------------------------------------------------
(* run_anin_on_clusters with its pool of worker processes (PoolSpec): one  *)
(* MASH cluster of two genomes, the commands run by thread_nucmer_cmds.     *)

\* the largest pool
MaxT == 3

\* the commands of step 1 for the cluster
PoolCmds == gen_nucmer_commands(<<Files[1], Files[2]>>, 0, 65, 1, TRUE, "mum")

InitPool ==
    /\ rpc = "step1"
    /\ t \in 1..MaxT
    /\ job = <<>> /\ delta = <<>> /\ readlog = {}
    /\ pc = "off" /\ Bdb = <<>> /\ MASH_ANI = DefaultMASH_ANI /\ ANIn = DefaultANIn
    /\ dry \in BOOLEAN
    /\ skipMash = FALSE /\ skipANIn = FALSE
    /\ Mdb = <<>> /\ Cdb = <<>> /\ Ndb = NoTable
    /\ bound = {} /\ cmds = <<>> /\ nuc = <<>> /\ fineG = <<>>
    /\ GraphIdle /\ ParseIdle

\* the variables of cluster_genomes the pool does not touch
poolrest == <<pc, Bdb, MASH_ANI, ANIn, dry, skipMash, skipANIn, Mdb, Cdb, Ndb,
              bound, nuc, fineG, graphv, parsev>>

\* the commands a worker of the pool is running
running(j) == {i \in DOMAIN j : j[i] = "running"}

\* pool.map(run_nucmer_cmd, cmds) without waiting for the results
pool_map_async(j) == TRUE

\* pool.map returns, and pool.close(); pool.join() after it, once every
\* command handed to the pool has been run to its end
pool_joined(j) == \A i \in DOMAIN j : j[i] = "done"

\* Step 1: the list of commands; no delta file exists yet
Pool_step1 ==
    /\ rpc = "step1"
    /\ cmds' = PoolCmds
    /\ job' = MkSeq([i \in 1..Len(PoolCmds) |-> "new"], 1, Len(PoolCmds))
    /\ delta' = MkSeq([i \in 1..Len(PoolCmds) |-> "none"], 1, Len(PoolCmds))
    /\ rpc' = "step2"
    /\ UNCHANGED <<t, readlog, poolrest>>

\* Step 2, dry: thread_nucmer_cmds is not called
Pool_dry ==
    /\ rpc = "step2" /\ dry
    /\ rpc' = "step3"
    /\ UNCHANGED <<t, job, delta, readlog, cmds, poolrest>>

\* Step 2: thread_nucmer_cmds(cmds) makes the pool and hands it every command
Pool_map ==
    /\ rpc = "step2" /\ ~dry
    /\ job' = MkSeq([i \in 1..Len(cmds) |-> "queued"], 1, Len(cmds))
    /\ rpc' = "map"
    /\ UNCHANGED <<t, delta, readlog, cmds, poolrest>>

\* a free worker of the pool takes a command: run_nucmer_cmd calls nucmer
Worker_start ==
    /\ rpc = "map"
    /\ Cardinality(running(job)) < t
    /\ \E i \in DOMAIN job :
          /\ job[i] = "queued"
          /\ job' = [job EXCEPT ![i] = "running"]
    /\ UNCHANGED <<rpc, t, delta, readlog, cmds, poolrest>>

\* a running nucmer writes its delta file
Nucmer_write ==
    /\ \E i \in running(job) :
          /\ delta[i] # "complete"
          /\ delta' = [delta EXCEPT ![i] = IF @ = "none" THEN "partial" ELSE "complete"]
    /\ UNCHANGED <<rpc, t, job, readlog, cmds, poolrest>>

\* nucmer exits, with a whole delta file or, having failed, without one;
\* call(cmd) returns and the worker is free again
Worker_finish ==
    /\ \E i \in running(job) : job' = [job EXCEPT ![i] = "done"]
    /\ UNCHANGED <<rpc, t, delta, readlog, cmds, poolrest>>

\* thread_nucmer_cmds returns
Pool_join ==
    /\ rpc = "map"
    /\ pool_joined(job)
    /\ rpc' = "step3"
    /\ UNCHANGED <<t, job, delta, readlog, cmds, poolrest>>

\* Step 3: process_deltadir reads a delta file that glob found
Pool_parse ==
    /\ rpc = "step3"
    /\ \E i \in DOMAIN delta :
          /\ delta[i] # "none"
          /\ \A r \in readlog : r.cmd # i
          /\ readlog' = readlog \cup {[cmd |-> i, job |-> job[i], file |-> delta[i]]}
    /\ UNCHANGED <<rpc, t, job, delta, cmds, poolrest>>

\* every file that glob found is read: return Ndb
Pool_return ==
    /\ rpc = "step3"
    /\ \A i \in DOMAIN delta : delta[i] # "none" => \E r \in readlog : r.cmd = i
    /\ rpc' = "returned"
    /\ UNCHANGED <<t, job, delta, readlog, cmds, poolrest>>

NextPool ==
    \/ Pool_step1
    \/ Pool_dry
    \/ Pool_map
    \/ Worker_start
    \/ Nucmer_write
    \/ Worker_finish
    \/ Pool_join
    \/ Pool_parse
    \/ Pool_return

PoolSpec == InitPool /\ [][NextPool]_vars

-----------------------------------------------------------------------------
(* Properties of cluster_genomes (Spec).                                   *)

\* the genomes of the input table
InputGenomes == Range(Column(Bdb, "genome"))

\* the MASH cluster ids of a table with a MASH_cluster column
ClusterIds(C) == Range(Column(C, "MASH_cluster"))

\* the rows of C in MASH cluster k
RowsOf(C, k) == {i \in 1..Len(C) : C[i].MASH_cluster = k}

\* C1.  Completeness: when cluster_genomes returns, every genome of Bdb is in
\* exactly one row of the returned Cdb.
C1_Complete ==
    pc = "returned" =>
        \A g \in InputGenomes : Cardinality({i \in 1..Len(Cdb) : Cdb[i].genome = g}) = 1

\* the files of the input whose genome (as Cdb names it) is in MASH cluster k
ClusterFiles(k) ==
    {l \in Range(Column(Bdb, "location")) :
        \E i \in RowsOf(Cdb, k) : Cdb[i].genome = get_genome_name_from_fasta(l)}

\* C2.  Once run_anin_on_clusters has returned (Cdb still being the MASH
\* assignment), the commands it generated are, without repetition, the pairs
\* of ClusterFiles(k) x ClusterFiles(k) over the MASH clusters k, and nothing
\* else: no command pairs files of two clusters.
C2_WithinClusters ==
    pc = "step3b" =>
        /\ {<<c.ref, c.querry>> : c \in Range(cmds)} =
               UNION {ClusterFiles(k) \X ClusterFiles(k) : k \in ClusterIds(Cdb)}
        /\ \A i, j \in 1..Len(cmds) :
               (cmds[i].ref = cmds[j].ref /\ cmds[i].querry = cmds[j].querry) => i = j
        /\ \A c \in Range(cmds) :
               \E k \in ClusterIds(Cdb) : {c.ref, c.querry} \subseteq ClusterFiles(k)

\* u and v are connected in G: every set of nodes that holds u and is closed
\* under G's edges holds v
Connected(G, u, v) ==
    /\ {u, v} \subseteq Range(G.nodes)
    /\ \A S \in SUBSET Range(G.nodes) :
          (u \in S /\ \A e \in G.edges : (e \cap S # {}) => e \subseteq S) => v \in S

\* the labels of the rows of the returned Cdb in MASH cluster k
LabelsOf(k) == {Cdb[i].ANIn_cluster : i \in RowsOf(Cdb, k)}

\* C3.  In the returned Cdb every label is "{MASH cluster}_{fine id}", the
\* fine ids of a MASH cluster are 0, 1, ... without a gap, and two genomes
\* have the same label iff they are in the same MASH cluster and connected in
\* the ANIn graph of that cluster.
C3_Labels ==
    pc = "returned" =>
        /\ \A k \in ClusterIds(Cdb) :
              LabelsOf(k) = {Digits(k) \o <<"_">> \o Digits(f) :
                                f \in 0..(Cardinality(LabelsOf(k)) - 1)}
        /\ \A i, j \in 1..Len(Cdb) :
              (Cdb[i].ANIn_cluster = Cdb[j].ANIn_cluster) <=>
                  /\ Cdb[i].MASH_cluster = Cdb[j].MASH_cluster
                  /\ Connected(fineG[Cdb[i].MASH_cluster], Cdb[i].genome, Cdb[j].genome)

\* the label of genome g in the returned Cdb
LabelOf(g) == Cdb[CHOOSE i \in 1..Len(Cdb) : Cdb[i].genome = g].ANIn_cluster

\* the labels 0_0, 0_0, 1_0 for A, B, C: MASH clusters {A, B} and {C}, A and B
\* connected in the ANIn graph
C3_Witness ==
    /\ pc = "returned"
    /\ {Cdb[i].genome : i \in 1..Len(Cdb)} = {<<"A">>, <<"B">>, <<"C">>}
    /\ LabelOf(<<"A">>) = <<"0", "_", "0">>
    /\ LabelOf(<<"B">>) = <<"0", "_", "0">>
    /\ LabelOf(<<"C">>) = <<"1", "_", "0">>

\* the rows of Ndb for the unordered pair {u, v}
PairRows(u, v) ==
    {i \in 1..Len(Ndb.rows) : {Ndb.rows[i].reference, Ndb.rows[i].querry} = {u, v}}

\* C4.  In the ANIn graph of every MASH cluster, two genomes are joined iff a
\* row of theirs has an identity above the ANIn handed to cluster_genomes and
\* a reference coverage above the coverage threshold.
C4_FineThreshold ==
    pc = "returned" =>
        \A k \in DOMAIN fineG :
            \A u, v \in Range(fineG[k].nodes) :
                ({u, v} \in fineG[k].edges) <=>
                    \E i \in PairRows(u, v) :
                        /\ FracGT(Ndb.rows[i].ani, ANIn)
                        /\ FracGT(Ndb.rows[i].ref_coverage, DefaultCov)

\* C8.  A call with skipMash does not raise; past step 2 every genome of Bdb
\* is in MASH cluster 0.
C8_SkipMash ==
    skipMash =>
        /\ pc # "raised"
        /\ pc \in {"step3", "step3b", "step4", "returned"} =>
              /\ InputGenomes = {Cdb[i].genome : i \in 1..Len(Cdb)}
              /\ ClusterIds(Cdb) = {0}

-----------------------------------------------------------------------------
(* Properties of the graph builders (GraphSpec).                           *)

\* the genomes a table names, in either column
TableGenomes(kind, df) ==
    IF kind = "mash"
    THEN Range(Column(df, "genome1")) \cup Range(Column(df, "genome2"))
    ELSE Range(Column(df, "reference")) \cup Range(Column(df, "querry"))

\* the table without the rows that pair a genome with itself
SelfFree(kind, df) ==
    IF kind = "mash"
    THEN SelectSeq(df, LAMBDA r : r.genome1 # r.genome2)
    ELSE SelectSeq(df, LAMBDA r : r.reference # r.querry)

\* the clusters of the table cluster_graph returned, as sets of genomes
Partition(T) ==
    {{T[i].genome : i \in {j \in 1..Len(T) : T[j].cluster = k}} : k \in Range(Column(T, "cluster"))}

\* C7.  The graph built from a table has a node for every genome the table
\* names, and cluster_graph puts each of them in exactly one cluster.
C7_AllNodes ==
    \A thr \in DOMAIN gres :
        /\ Range(gres[thr].G.nodes) = TableGenomes(gkind, gdf)
        /\ \A g \in TableGenomes(gkind, gdf) :
              Cardinality({i \in 1..Len(gres[thr].clusters) :
                              gres[thr].clusters[i].genome = g}) = 1

\* C6.  The clustering of a table is the clustering of the same table without
\* its self-pair rows: the same genomes, sharing the same clusters.
C6_SelfPairs ==
    \A thr \in DOMAIN gres :
        Partition(gres[thr].clusters) =
            Partition(graph_result(gkind, SelfFree(gkind, gdf), thr).clusters)

-----------------------------------------------------------------------------
(* Thresholds raised on the same tables (MonoSpec): calls of cluster_genomes *)
(* and calls of the graph builders.                                        *)

InitMono == Init \/ InitGraph

NextMono == Next \/ NextGraph

MonoSpec == InitMono /\ [][NextMono]_vars

\* Steps 3 and 4 of cluster_genomes on the MASH assignment C, B2 being
\* pd.merge(Bdb, Cdb) and out what NUCmer writes: [raised, Cdb].  (The files of
\* a folder are listed in the order of Bdb.)
fine_stage(C, B2, out) ==
    LET cs == anin_commands(B2)
        lengths == Column(MkSeq([i \in 1..Len(B2) |->
                                    [len |-> fasta_length[B2[i].location]]],
                                1, Len(B2)), "len")
    IN  CHOOSE r \in
            {IF N.raised \/ ~N.cols
             THEN [raised |-> TRUE, Cdb |-> <<>>]
             ELSE [raised |-> FALSE,
                   Cdb |-> cluster_anin_database(C, N.rows, DefaultANIn, DefaultCov)] :
                N \in {anin_parse(B2, delta_files(cs, out), lengths,
                                  Column(B2, "genome"))}} : TRUE

\* What a call cluster_genomes(B, MASH_ANI=mash_ani, ANIn=anin), neither dry
\* nor skipping a step, returns as Cdb when mash measures the table M and
\* NUCmer writes out.  anin is not read: step 3b passes ANIn=.99.
cluster_genomes_returns(B, M, out, mash_ani, anin) ==
    CHOOSE r \in {fine_stage(C, B2, out) :
                    C \in {cluster_database(M, mash_ani)},
                    B2 \in {merge_Bdb_Cdb(B, cluster_database(M, mash_ani))}} : TRUE

\* the number of distinct clusters of a table cluster_graph returned
NumClusters(T) == Cardinality(Range(Column(T, "cluster")))

\* the number of distinct clusters of a final assignment
NumFinal(C) == Cardinality(Range(Column(C, "ANIn_cluster")))

\* the final assignment of the call at hand with its thresholds raised to
\* mash_ani and anin
Raised(mash_ani, anin) == cluster_genomes_returns(Bdb, Mdb, nuc, mash_ani, anin)

\* C5.  On the same table, a graph builder followed by cluster_graph gives at
\* a higher threshold at least as many clusters as at a lower one; and a call
\* of cluster_genomes that returned would, on the same MASH and NUCmer
\* results, return at least as many final clusters with MASH_ANI or ANIn raised.
C5_Monotone ==
    /\ \A lo, hi \in DOMAIN gres :
          lo <= hi => NumClusters(gres[lo].clusters) <= NumClusters(gres[hi].clusters)
    /\ pc = "returned" =>
          \A m \in MashThresholds, a \in AninThresholds :
              (m >= MASH_ANI /\ a >= ANIn /\ <<m, a>> # <<MASH_ANI, ANIn>>) =>
                  /\ ~Raised(m, a).raised
                  /\ NumFinal(Raised(m, a).Cdb) >= NumFinal(Cdb)

\* a call that returned one final cluster and returns more of them at the
\* higher MASH_ANI, the MASH graph itself splitting at that threshold
C5_Witness ==
    /\ pc = "returned"
    /\ MASH_ANI = DefaultMASH_ANI
    /\ NumFinal(Cdb) = 1
    /\ NumFinal(Raised(97, ANIn).Cdb) > 1
    /\ NumClusters(cluster_graph(make_graph(Mdb, 97))) >
           NumClusters(cluster_graph(make_graph(Mdb, MASH_ANI)))

-----------------------------------------------------------------------------
(* Properties of process_deltadir (ParseSpec).                             *)

\* the file has no match record, or only records of length 0
NoAlignedLength(lines) ==
    \A i \in 1..Len(lines) :
        (~lines[i].hdr /\ Len(lines[i].cols) = 7) => lines[i].cols[1] = lines[i].cols[2]

\* the row process_deltadir returns for a file that is alone in its directory
AloneRow(f) == process_deltadir(<<f>>, ParseLengths).df[1]

-----------------------------------------------------------------------------
(* Properties of the pool (PoolSpec).                                      *)

\* C10.  At most t commands run at once; in a run that is not dry, step 3 is
\* reached only when every command handed to the pool has been run to its
\* end; and no file is read while the command that writes it is running.
C10_JoinBarrier ==
    /\ Cardinality(running(job)) <= t
    /\ (~dry /\ rpc \in {"step3", "returned"}) => \A i \in DOMAIN job : job[i] = "done"
    /\ \A r \in readlog : r.job # "running" /\ (~dry => r.job = "done")

\* a pool smaller than the list of commands has run them all, and the parser
\* has read a whole file and the file a failed command left behind
C10_Witness ==
    /\ ~dry
    /\ rpc = "returned"
    /\ t < Len(cmds)
    /\ \E r \in readlog : r.file = "complete"
    /\ \E r \in readlog : r.file = "partial"

=============================================================================
